---- MODULE Spec2Model ----
(***************************************************************************)
(* Model of exptools2.session.Session: construction with settings loading, *)
(* the experiment clock, the event log, close() (log finalisation and the  *)
(* .tsv table) and the eyetracker operations.                              *)
(*                                                                         *)
(* Times are integer clock ticks; a reading of the psychopy clock is an    *)
(* input of the operation that takes it.  Python's None and pandas' NaN    *)
(* are the empty tuple <<>>; a present value v is the one-tuple <<v>>.     *)
(*                                                                         *)
(* pc is the position of the script that owns the session: "new" before    *)
(* Session(...), "running" while the session is in use, "quit" once        *)
(* close() has reached core.quit(), and "raised" once an exception has     *)
(* left a Session method (no method of the class handles one); err names   *)
(* that exception.                                                         *)
(***************************************************************************)
EXTENDS Integers, Sequences, FiniteSets, TLC

VARIABLES pc, settings_file, user_yml, eyetracker_on, settings, settings_out,
          exp_start, exp_stop, log, nr_frames, durations, frames_vec,
          tsv, tracker, iohub, recording, err

vars == <<pc, settings_file, user_yml, eyetracker_on, settings, settings_out,
          exp_start, exp_stop, log, nr_frames, durations, frames_vec,
          tsv, tracker, iohub, recording, err>>

\* ---------------------------------------------------------------- bounds
\* the longest log a run builds
MaxLog == 3

\* ---------------------------------------------------------------- values
None == <<>>
Some(v) == <<v>>
Val(o) == o[1]

\* clock.getTime() readings, in ticks
Times == {0, 1}

\* values of the frame counter
FrameCounts == {0, 1}

EventTypes == {"stim", "response"}
TrialNrs == {1}

\* ------------------------------------------------------------- settings
SettingsKeys == {"preferences", "window"}
DefaultSettings == [k \in SettingsKeys |-> 0]
UserValues == {1}
UserSettings == UNION {[ks -> UserValues] : ks \in SUBSET SettingsKeys}
EmptyYml == [k \in {} |-> 0]
SettingsFiles == {None, Some("missing.yml"), Some("user.yml")}

isfile(path) == path = "user.yml"

\* dict.update(other): mutates the receiver in place and returns None
DictUpdate(d, other) ==
    LET merged == [k \in (DOMAIN d) \cup (DOMAIN other) |->
                      IF k \in DOMAIN other THEN other[k] ELSE d[k]]
    IN  [self |-> merged, ret |-> None]

\* Session._load_settings: the value bound to `settings`, what is dumped to
\* <output_str>_expsettings.yml, and the error raised (if any)
load_settings(sfile, yml) ==
    IF sfile = None
    THEN [settings |-> Some(DefaultSettings), out |-> Some(Some(DefaultSettings)),
          err |-> "none"]
    ELSE IF ~isfile(Val(sfile))
    THEN [settings |-> None, out |-> None, err |-> "IOError"]
    ELSE LET s == DictUpdate(DefaultSettings, yml).ret
         IN  IF s = None
             THEN \* yaml.dump(None) is written, then None['preferences'] raises
                  [settings |-> None, out |-> Some(None), err |-> "TypeError"]
             ELSE [settings |-> s, out |-> Some(s), err |-> "none"]

\* self.log = dict(trial_nr=[], onset=[], ...): the six lists, kept row-wise
EmptyLog == [kind |-> "dict", rows |-> <<>>]

InitWith(ons) ==
    /\ pc = "new"
    /\ settings_file \in SettingsFiles
    /\ user_yml \in UserSettings
    /\ (settings_file # Some("user.yml") => user_yml = EmptyYml)
    /\ eyetracker_on \in ons
    /\ settings = None
    /\ settings_out = None
    /\ exp_start = None
    /\ exp_stop = None
    /\ log = EmptyLog
    /\ nr_frames = 0
    /\ durations = <<>>
    /\ frames_vec = <<>>
    /\ tsv = None
    /\ tracker = None
    /\ iohub = "unset"
    /\ recording = FALSE
    /\ err = "none"

\* a session about to be constructed, eyetracker_on left at its default
Init == InitWith({FALSE})

\* the same, with either value of eyetracker_on
InitTracker == InitWith(BOOLEAN)

\* Session.__init__
Session_init ==
    /\ pc = "new"
    /\ LET r == load_settings(settings_file, user_yml)
       IN  /\ settings' = r.settings
           /\ settings_out' = r.out
           /\ err' = r.err
           /\ pc' = IF r.err = "none" THEN "running" ELSE "raised"
    /\ UNCHANGED <<settings_file, user_yml, eyetracker_on, exp_start,
                   exp_stop, log, nr_frames, durations, frames_vec, tsv,
                   tracker, iohub, recording>>

\* ------------------------------------------------------------ the clock
\* Session.start_experiment with the _set_exp_start flip callback; t is the
\* reading of the global clock just before it is reset
start_experiment ==
    /\ pc = "running"
    /\ \E t \in Times : exp_start' = Some(t)
    /\ UNCHANGED <<pc, settings_file, user_yml, eyetracker_on, settings,
                   settings_out, exp_stop, log, nr_frames, durations,
                   frames_vec, tsv, tracker, iohub, recording, err>>

\* ------------------------------------------------- the run's collaborator
\* the presentation loop advances / resets the live frame counter
SetFrames ==
    /\ pc = "running"
    /\ \E n \in FrameCounts : n # nr_frames /\ nr_frames' = n
    /\ UNCHANGED <<pc, settings_file, user_yml, eyetracker_on, settings,
                   settings_out, exp_start, exp_stop, log, durations,
                   frames_vec, tsv, tracker, iohub, recording, err>>

Event(t, on, ty, fr) ==
    [trial_nr |-> t, onset |-> on, event_type |-> ty, phase |-> 0,
     response |-> IF ty = "response" THEN Some("space") ELSE None,
     nr_frames |-> fr]

\* log_event: append one event to the six lists of the log dict; on a log
\* that close() has turned into a DataFrame, 'trial_nr' is the index, not a
\* column, and the lookup self.log['trial_nr'] raises KeyError
log_event ==
    /\ pc = "running"
    /\ IF log.kind = "dict"
       THEN /\ Len(log.rows) < MaxLog
            /\ \E t \in TrialNrs, on \in Times, ty \in EventTypes, fr \in FrameCounts :
                  log' = [log EXCEPT !.rows = Append(@, Event(t, on, ty, fr))]
            /\ UNCHANGED <<pc, err>>
       ELSE /\ err' = "KeyError"
            /\ pc' = "raised"
            /\ log' = log
    /\ UNCHANGED <<settings_file, user_yml, eyetracker_on, settings,
                   settings_out, exp_start, exp_stop, nr_frames,
                   durations, frames_vec, tsv, tracker, iohub, recording>>

\* ---------------------------------------------------------------- close
\* an array with its entries evaluated (a tuple)
Arr(f) == f \o <<>>

\* pd.DataFrame(self.log).set_index('trial_nr'): one row per event, in order
ToFrame(rows) ==
    Arr([i \in 1..Len(rows) |->
        [trial_nr |-> rows[i].trial_nr, onset |-> rows[i].onset,
         event_type |-> rows[i].event_type, phase |-> rows[i].phase,
         response |-> rows[i].response, nr_frames |-> rows[i].nr_frames,
         onset_abs |-> None, duration |-> None]])

\* self.log['onset_abs'] = self.log['onset'] + self.exp_start
SetOnsetAbs(df, start) ==
    Arr([i \in 1..Len(df) |-> [df[i] EXCEPT !.onset_abs = Some(df[i].onset + start)]])

\* variant: an empty log reads as a last onset of 0
last_onset_or_zero(rows) ==
    IF Len(rows) = 0 THEN Some(0) ELSE Some(rows[Len(rows)].onset)

\* self.log['onset'][-1]: the last onset logged; None stands for the
\* IndexError that indexing an empty list raises
last_onset(rows) ==
    IF Len(rows) = 0 THEN None ELSE Some(rows[Len(rows)].onset)

\* variant: the time since the last non-response event
dur_since_last_phase_event(stop, rows) ==
    LET ph == {i \in 1..Len(rows) : rows[i].event_type # "response"}
    IN  IF ph = {} THEN stop - Val(last_onset(rows))
        ELSE stop - rows[CHOOSE i \in ph : \A j \in ph : j <= i].onset

\* dur_last_phase = self.exp_stop - self.log['onset'][-1]
dur_last_phase(stop, rows) == stop - Val(last_onset(rows))

\* variant: every row selected
nonresp_idx_all(df) == 1..Len(df)

\* nonresp_idx = self.log.event_type != 'response' : the positions it selects
nonresp_idx(df) == {i \in 1..Len(df) : df[i].event_type # "response"}

\* rank of position i among the selected positions, and the k-th selected one
Rank(idx, i) == Cardinality({j \in idx : j <= i})
Nth(idx, k) == CHOOSE i \in idx : Rank(idx, i) = k

\* self.log.loc[idx, col].values
Loc(df, idx, col) == Arr([k \in 1..Cardinality(idx) |-> df[Nth(idx, k)][col]])

\* Series.diff().values[1:] : differences of consecutive entries
DiffTail(xs) ==
    Arr([k \in 1..(IF Len(xs) = 0 THEN 0 ELSE Len(xs) - 1) |-> xs[k + 1] - xs[k]])

\* xs.values[1:]
Tail1(xs) == IF Len(xs) = 0 THEN <<>> ELSE Tail(xs)

\* variant: the gap to the next row of the log, response or not
DurationsToNextRow(df, idx, dlast) ==
    IF idx = {} THEN <<dlast>>
    ELSE Arr([k \in 1..Cardinality(idx) |->
                LET i == Nth(idx, k)
                IN  IF k = Cardinality(idx) THEN dlast
                    ELSE df[i + 1].onset - df[i].onset])

\* durations = np.append(self.log.loc[nonresp_idx, 'onset'].diff().values[1:],
\*                       dur_last_phase)
Durations(df, idx, dlast) == Append(DiffTail(Loc(df, idx, "onset")), dlast)

\* variant: the logged frame counts, not shifted
NrFramesUnshifted(df, idx, live) ==
    IF idx = {} THEN <<live>> ELSE Loc(df, idx, "nr_frames")

\* nr_frames = np.append(self.log.loc[nonresp_idx, 'nr_frames'].values[1:],
\*                       self.nr_frames)
NrFrames(df, idx, live) == Append(Tail1(Loc(df, idx, "nr_frames")), live)

\* what pandas does when a one-element vector is assigned to an empty
\* selection depends on the pandas version: nothing, or ValueError
LocEmptyOutcomes == {"noop", "ValueError"}

\* self.log.loc[idx, col] = vec : "ok", "noop" or "ValueError"
LocOutcome(idx, vec, lib) ==
    IF Len(vec) = Cardinality(idx) THEN "ok"
    ELSE IF Cardinality(idx) = 0 /\ Len(vec) = 1 THEN lib
    ELSE "ValueError"

\* self.log.loc[idx, 'duration'] = vec, the lengths agreeing
LocSetDuration(df, idx, vec) ==
    Arr([i \in 1..Len(df) |->
            IF i \in idx THEN [df[i] EXCEPT !.duration = Some(vec[Rank(idx, i)])]
            ELSE df[i]])

\* self.log.loc[idx, 'nr_frames'] = vec, the lengths agreeing
LocSetNrFrames(df, idx, vec) ==
    Arr([i \in 1..Len(df) |->
            IF i \in idx THEN [df[i] EXCEPT !.nr_frames = vec[Rank(idx, i)]]
            ELSE df[i]])

\* variant: close() converts a copy of the log and returns to the caller
AfterCloseStillRunning(df) == [log |-> log, pc |-> "running"]

\* the session once close() has written the table: self.log is the frame
\* (self.log = pd.DataFrame(...)) and core.quit() has ended the process
AfterClose(df) == [log |-> [kind |-> "frame", rows |-> df], pc |-> "quit"]

\* Session.close; t is the clock reading at the last flip (_set_exp_stop) and
\* lib the pandas behaviour on an empty selection
CloseWith(t, lib) ==
    /\ pc = "running"
    /\ exp_stop' = Some(t)
    /\ IF log.kind = "frame"
       THEN \* self.log['onset'][-1] is a label lookup on the trial_nr index
            /\ err' = "KeyError"
            /\ pc' = "raised"
            /\ UNCHANGED <<log, durations, frames_vec, tsv>>
       ELSE IF last_onset(log.rows) = None
       THEN /\ err' = "IndexError"
            /\ pc' = "raised"
            /\ UNCHANGED <<log, durations, frames_vec, tsv>>
       ELSE IF exp_start = None
       THEN \* the frame is built, then onset + None raises
            /\ err' = "TypeError"
            /\ pc' = "raised"
            /\ log' = [kind |-> "frame", rows |-> ToFrame(log.rows)]
            /\ UNCHANGED <<durations, frames_vec, tsv>>
       ELSE LET dlast == dur_last_phase(t, log.rows)
                df1   == SetOnsetAbs(ToFrame(log.rows), Val(exp_start))
                idx   == nonresp_idx(df1)
                durs  == Durations(df1, idx, dlast)
                o1    == LocOutcome(idx, durs, lib)
                df2   == IF o1 = "ok" THEN LocSetDuration(df1, idx, durs) ELSE df1
                frs   == NrFrames(df2, idx, nr_frames)
                o2    == LocOutcome(idx, frs, lib)
                df3   == IF o2 = "ok" THEN LocSetNrFrames(df2, idx, frs) ELSE df2
            IN  /\ durations' = durs
                /\ IF o1 = "ValueError"
                   THEN /\ err' = "ValueError"
                        /\ pc' = "raised"
                        /\ log' = [kind |-> "frame", rows |-> df1]
                        /\ UNCHANGED <<frames_vec, tsv>>
                   ELSE /\ frames_vec' = frs
                        /\ IF o2 = "ValueError"
                           THEN /\ err' = "ValueError"
                                /\ pc' = "raised"
                                /\ log' = [kind |-> "frame", rows |-> df2]
                                /\ UNCHANGED tsv
                           ELSE /\ err' = "none"
                                /\ tsv' = Some(df3)
                                /\ log' = AfterClose(df3).log
                                /\ pc' = AfterClose(df3).pc
    /\ UNCHANGED <<settings_file, user_yml, eyetracker_on, settings, settings_out,
                   exp_start, nr_frames, tracker, iohub, recording>>

close == \E t \in Times, lib \in LocEmptyOutcomes : CloseWith(t, lib)

\* ----------------------------------------------------------- eyetracker
\* what a call through a tracker whose ioHub server has quit does is up to
\* psychopy: it returns or raises
HubGoneOutcomes == {"none", "RuntimeError"}

\* where the script is after a call that raised e ("none": it returned)
Raised(e) == IF e = "none" THEN pc ELSE "raised"

\* Session.init_eyetracker
init_eyetracker ==
    /\ pc = "running"
    /\ IF ~eyetracker_on
       THEN /\ err' = "ValueError"
            /\ pc' = "raised"
            /\ UNCHANGED <<tracker, iohub>>
       ELSE /\ iohub' = "running"
            /\ tracker' = Some("eyetracker")
            /\ UNCHANGED <<pc, err>>
    /\ UNCHANGED <<settings_file, user_yml, eyetracker_on, settings,
                   settings_out, exp_start, exp_stop, log, nr_frames, durations,
                   frames_vec, tsv, recording>>

\* self.tracker.setRecordingState(on): the error raised, "none" if it returns
setRecordingState(trk, hub) ==
    IF trk = None THEN {"AttributeError"}
    ELSE IF hub = "quit" THEN HubGoneOutcomes
    ELSE {"none"}

\* Session.start_recording_eyetracker
start_recording_eyetracker ==
    /\ pc = "running"
    /\ \E e \in setRecordingState(tracker, iohub) :
          /\ err' = e
          /\ pc' = Raised(e)
          /\ recording' = IF e = "none" THEN TRUE ELSE recording
    /\ UNCHANGED <<settings_file, user_yml, eyetracker_on, settings,
                   settings_out, exp_start, exp_stop, log, nr_frames, durations,
                   frames_vec, tsv, tracker, iohub>>

\* Session.stop_recording_eyetracker
stop_recording_eyetracker ==
    /\ pc = "running"
    /\ \E e \in setRecordingState(tracker, iohub) :
          /\ err' = e
          /\ pc' = Raised(e)
          /\ recording' = IF e = "none" THEN FALSE ELSE recording
    /\ UNCHANGED <<settings_file, user_yml, eyetracker_on, settings,
                   settings_out, exp_start, exp_stop, log, nr_frames, durations,
                   frames_vec, tsv, tracker, iohub>>

\* the error calibrate_eyetracker raises, "none" if it returns
calibrate_outcomes(trk, hub) ==
    IF trk = None THEN {"ValueError"}
    ELSE IF hub = "quit" THEN HubGoneOutcomes
    ELSE {"none"}

\* Session.calibrate_eyetracker
calibrate_eyetracker ==
    /\ pc = "running"
    /\ \E e \in calibrate_outcomes(tracker, iohub) :
          /\ err' = e
          /\ pc' = Raised(e)
    /\ UNCHANGED <<settings_file, user_yml, eyetracker_on, settings,
                   settings_out, exp_start, exp_stop, log, nr_frames, durations,
                   frames_vec, tsv, tracker, iohub, recording>>

\* Session.close_tracker: stop_recording_eyetracker(), then self.iohub.quit()
close_tracker ==
    /\ pc = "running"
    /\ \E e \in setRecordingState(tracker, iohub) :
          /\ err' = e
          /\ pc' = Raised(e)
          /\ IF e # "none"
             THEN UNCHANGED <<recording, iohub>>
             ELSE /\ recording' = FALSE
                  /\ iohub' = "quit"
    /\ UNCHANGED <<settings_file, user_yml, eyetracker_on, settings,
                   settings_out, exp_start, exp_stop, log, nr_frames, durations,
                   frames_vec, tsv, tracker>>

\* ------------------------------------------------------- specifications
\* a run of the session: construction, the experiment, the log, close
Next ==
    \/ Session_init
    \/ start_experiment
    \/ SetFrames
    \/ log_event
    \/ close

Spec == Init /\ [][Next]_vars

\* a session driving the eyetracker, no event being logged
NextTracker ==
    \/ Session_init
    \/ start_experiment
    \/ SetFrames
    \/ close
    \/ init_eyetracker
    \/ start_recording_eyetracker
    \/ stop_recording_eyetracker
    \/ calibrate_eyetracker
    \/ close_tracker

SpecTracker == InitTracker /\ [][NextTracker]_vars

\* ------------------------------------------------------------ properties
NonResp(T) == {i \in 1..Len(T) : T[i].event_type # "response"}
Resp(T) == {i \in 1..Len(T) : T[i].event_type = "response"}
\* the first non-response row after row i
NextNonResp(T, i) ==
    CHOOSE j \in NonResp(T) : j > i /\ \A m \in NonResp(T) : m > i => j <= m
LastNonResp(T) == CHOOSE j \in NonResp(T) : \A m \in NonResp(T) : m <= j

\* C1: in the written table, every non-response event that is not the last
\* non-response event has as duration the onset of the next non-response
\* event minus its own onset, whatever response events lie in between.
C1_DurationIsGapToNextNonResponse ==
    tsv # None =>
        LET T == Val(tsv)
        IN  \A i \in NonResp(T) :
                i # LastNonResp(T) =>
                    T[i].duration = Some(T[NextNonResp(T, i)].onset - T[i].onset)

\* a table written with a response event between two non-response events,
\* the response's onset differing from the second one's
C1_Witness ==
    /\ tsv # None
    /\ \E i, j, k \in 1..Len(Val(tsv)) :
          /\ i < j /\ j < k
          /\ {i, k} \subseteq NonResp(Val(tsv))
          /\ j \in Resp(Val(tsv))
          /\ Val(tsv)[j].onset # Val(tsv)[k].onset

\* C2: in the written table, the last non-response event has as duration the
\* experiment-stop time minus the onset of the last event of the whole log.
C2_LastDurationFromLastOnsetOverall ==
    (tsv # None /\ NonResp(Val(tsv)) # {}) =>
        LET T == Val(tsv)
        IN  T[LastNonResp(T)].duration = Some(Val(exp_stop) - T[Len(T)].onset)

\* a table written from a log that ends in a response event whose onset is
\* not the onset of the last non-response event
C2_Witness ==
    /\ tsv # None
    /\ NonResp(Val(tsv)) # {}
    /\ Len(Val(tsv)) \in Resp(Val(tsv))
    /\ Val(tsv)[Len(Val(tsv))].onset # Val(tsv)[LastNonResp(Val(tsv))].onset

\* C3: in the written table, an event has a null duration exactly when it is
\* a response event, wherever it stands in the log.
C3_ResponseDurationsNull ==
    tsv # None =>
        \A i \in 1..Len(Val(tsv)) :
            (Val(tsv)[i].event_type = "response") <=> (Val(tsv)[i].duration = None)

\* a table written from a log that starts and ends with a response event and
\* has a non-response event in between
C3_Witness ==
    /\ tsv # None
    /\ Len(Val(tsv)) >= 3
    /\ {1, Len(Val(tsv))} \subseteq Resp(Val(tsv))
    /\ NonResp(Val(tsv)) # {}

\* C4: the close() that writes the table gives each non-response event the
\* nr_frames logged with the next non-response event, the last one the live
\* frame counter, and leaves the nr_frames of response events as logged.
C4_NrFramesShifted ==
    [][(tsv = None /\ tsv' # None) =>
          LET L == log.rows
              T == Val(tsv')
          IN  /\ Len(T) = Len(L)
              /\ \A i \in 1..Len(L) :
                    T[i].nr_frames =
                        IF i \in Resp(L) THEN L[i].nr_frames
                        ELSE IF i = LastNonResp(L) THEN nr_frames
                        ELSE L[NextNonResp(L, i)].nr_frames]_vars

\* a table written with a response event and two non-response events whose
\* frame counts differ after the shift
C4_Witness ==
    /\ tsv # None
    /\ Resp(Val(tsv)) # {}
    /\ Cardinality(NonResp(Val(tsv))) >= 2
    /\ Len(frames_vec) >= 2
    /\ frames_vec[1] # frames_vec[Len(frames_vec)]

\* C5: close() on a log of zero events raises to the caller and writes no
\* table.
C5_EmptyLogRaises ==
    [][(close /\ log.kind = "dict" /\ Len(log.rows) = 0) =>
          (pc' = "raised" /\ err' # "none" /\ tsv' = None)]_vars

\* close() has raised on an empty log, started or not
C5_Witness ==
    /\ pc = "raised"
    /\ err = "IndexError"
    /\ Len(log.rows) = 0
    /\ exp_start # None
    /\ tsv = None

\* the bundled defaults overridden key by key by the user's settings
Merged(default, user) ==
    [k \in (DOMAIN default) \cup (DOMAIN user) |->
        IF k \in DOMAIN user THEN user[k] ELSE default[k]]

\* C6: with an existing settings file, the settings returned by
\* _load_settings and written to <output_str>_expsettings.yml are the
\* defaults with every top-level key of the user file replaced.
C6_UserSettingsOverrideDefaults ==
    (pc # "new" /\ settings_file = Some("user.yml")) =>
        /\ settings = Some(Merged(DefaultSettings, user_yml))
        /\ settings_out = Some(Some(Merged(DefaultSettings, user_yml)))

\* C7: every eyetracker operation invoked while self.tracker is None raises
\* the explicit not-initialized error (the ValueError that
\* calibrate_eyetracker raises), and so does init_eyetracker when
\* eyetracker_on is False, leaving self.tracker None.
C7_TrackerOpsNeedInit ==
    [][/\ ((tracker = None /\ (\/ calibrate_eyetracker
                               \/ start_recording_eyetracker
                               \/ stop_recording_eyetracker
                               \/ close_tracker))
              => (pc' = "raised" /\ err' = "ValueError"))
       /\ ((~eyetracker_on /\ init_eyetracker)
              => (pc' = "raised" /\ err' = "ValueError" /\ tracker' = None))]_vars

\* C8: close() on a session with at least one logged event writes the table
\* with the logged onsets, at whatever point of the run it is called.
C8_CloseAlwaysSaves ==
    [][(close /\ log.kind = "dict" /\ Len(log.rows) >= 1) =>
          /\ tsv' # None
          /\ Len(Val(tsv')) = Len(log.rows)
          /\ \A i \in 1..Len(log.rows) : Val(tsv')[i].onset = log.rows[i].onset]_vars

C10_VectorLengths ==
    /\ durations # <<>> => Len(durations) = Cardinality(NonResp(log.rows))
    /\ frames_vec # <<>> => Len(frames_vec) = Cardinality(NonResp(log.rows))
====
